---- MODULE Spec2Model ----
(***************************************************************************)
(* Voice-controlled to-do list (VoiceToDoApp component).                   *)
(*                                                                         *)
(* A string is a sequence of one-character strings, so that toLowerCase,   *)
(* trim, includes and the regular expressions of findBestCommandMatch are  *)
(* computed character by character.  Transcripts are single-line text      *)
(* (what a speech engine reports and what an <input type="text"> holds).   *)
(***************************************************************************)
EXTENDS Integers, Sequences, FiniteSets, TLC

VARIABLES
    tasks,              \* useState<Task[]>: sequence of [id, content, completed]
    listening,          \* useState<boolean>
    transcript,         \* useState<string>
    editedTranscript,   \* useState<string>
    feedback,           \* useState<string>: [msg, arg], arg the interpolated text
    processingCommand,  \* useState<boolean>
    isEditing,          \* useState<boolean>
    recs,               \* the live SpeechRecognition objects; the last one is recognitionRef.current
    supported,          \* environment: window has (webkit)SpeechRecognition
    now,                \* environment: the value Date.now() returned last
    ev,                 \* history: the last handler that ran: [name, starts, stops, fb, pre]
    mInput,             \* matcher harness: the transcript handed to findBestCommandMatch
    mResult             \* matcher harness: what it returned

vars == <<tasks, listening, transcript, editedTranscript, feedback, processingCommand,
          isEditing, recs, supported, now, ev, mInput, mResult>>

appVars == <<tasks, listening, transcript, editedTranscript, feedback, processingCommand,
             isEditing, recs, supported, now, ev>>

matcherVars == <<mInput, mResult>>

-----------------------------------------------------------------------------
(* Strings *)

sp == <<" ">>
tab == <<"\t">>

IsSpace(c) == c \in {" ", "\t"}

\* String.prototype.toLowerCase, one character
LowerChar(c) ==
    CASE c = "A" -> "a" [] c = "B" -> "b" [] c = "D" -> "d" [] c = "K" -> "k"
      [] c = "M" -> "m" [] c = "S" -> "s" [] c = "T" -> "t" [] c = "X" -> "x"
      [] OTHER -> c

toLowerCase(s) == [i \in 1..Len(s) |-> LowerChar(s[i])]

RECURSIVE TrimStart(_)
TrimStart(s) ==
    IF s # <<>> /\ IsSpace(Head(s)) THEN TrimStart(Tail(s)) ELSE s

RECURSIVE TrimEnd(_)
TrimEnd(s) ==
    IF s # <<>> /\ IsSpace(s[Len(s)]) THEN TrimEnd(SubSeq(s, 1, Len(s) - 1)) ELSE s

\* String.prototype.trim
trim(s) == TrimEnd(TrimStart(s))

\* the literal w stands in s at position i
StartsAt(s, i, w) ==
    /\ i + Len(w) - 1 <= Len(s)
    /\ \A j \in 1..Len(w) : s[i + j - 1] = w[j]

\* String.prototype.includes
includes(s, w) == \E i \in 1..(Len(s) + 1) : StartsAt(s, i, w)

\* Array.prototype.join('') of a list of strings
RECURSIVE joinAll(_)
joinAll(ss) == IF ss = <<>> THEN <<>> ELSE Head(ss) \o joinAll(Tail(ss))

-----------------------------------------------------------------------------
(* Words of the command grammar and of the example tasks *)

wAdd == <<"a", "d", "d">>
wTask == <<"t", "a", "s", "k">>
wTasks == <<"t", "a", "s", "k", "s">>
wCreate == <<"c", "r", "e", "a", "t", "e">>
wNew == <<"n", "e", "w">>
wMark == <<"m", "a", "r", "k">>
wAs == <<"a", "s">>
wDone == <<"d", "o", "n", "e">>
wComplete == <<"c", "o", "m", "p", "l", "e", "t", "e">>
wFinish == <<"f", "i", "n", "i", "s", "h">>
wCheck == <<"c", "h", "e", "c", "k">>
wOff == <<"o", "f", "f">>
wDelete == <<"d", "e", "l", "e", "t", "e">>
wRemove == <<"r", "e", "m", "o", "v", "e">>
wClear == <<"c", "l", "e", "a", "r">>
wAll == <<"a", "l", "l">>
wBuy == <<"b", "u", "y">>
wMilk == <<"m", "i", "l", "k">>
wCall == <<"c", "a", "l", "l">>
wMom == <<"m", "o", "m">>

\* the words of ws separated by the separator sep
RECURSIVE Phrase(_, _)
Phrase(ws, sep) ==
    IF ws = <<>> THEN <<>>
    ELSE IF Len(ws) = 1 THEN ws[1]
    ELSE ws[1] \o sep \o Phrase(Tail(ws), sep)

Say(ws) == Phrase(ws, sp)

-----------------------------------------------------------------------------
(* Regular expressions of findBestCommandMatch.  A pattern is a sequence   *)
(* of elements: a literal word, \s+ ("ws") or the capture group (.+)       *)
(* ("cap").  Matching is JavaScript's: unanchored, leftmost start, greedy  *)
(* quantifiers that give characters back, case-insensitive (flag i).       *)

Lit(w) == [t |-> "lit", w |-> w]
Ws == [t |-> "ws", w |-> <<>>]
Cap == [t |-> "cap", w |-> <<>>]

NoMatch == [ok |-> FALSE, cap |-> <<>>]

\* flag i: the literal w stands in s at position i, letter case ignored
LitAt(s, i, w) ==
    /\ i + Len(w) - 1 <= Len(s)
    /\ \A j \in 1..Len(w) : LowerChar(s[i + j - 1]) = LowerChar(w[j])

\* the number of whitespace characters of s from position i on
RECURSIVE WsRun(_, _)
WsRun(s, i) == IF i <= Len(s) /\ IsSpace(s[i]) THEN 1 + WsRun(s, i + 1) ELSE 0

\* the number of characters "." matches from position i on (to the end of the line)
DotRun(s, i) == Len(s) - i + 1

RECURSIVE MatchFrom(_, _, _, _)
RECURSIVE TryLen(_, _, _, _, _)

\* elements k.. of pat matched against s from position i on
MatchFrom(pat, k, s, i) ==
    IF k > Len(pat) THEN [ok |-> TRUE, cap |-> <<>>]
    ELSE IF pat[k].t = "lit"
         THEN IF LitAt(s, i, pat[k].w)
              THEN MatchFrom(pat, k + 1, s, i + Len(pat[k].w))
              ELSE NoMatch
    ELSE IF pat[k].t = "ws" THEN TryLen(pat, k, s, i, WsRun(s, i))
    ELSE TryLen(pat, k, s, i, DotRun(s, i))

\* the quantified element k takes len characters, or fewer if the rest fails
TryLen(pat, k, s, i, len) ==
    IF len < 1 THEN NoMatch
    ELSE LET r == MatchFrom(pat, k + 1, s, i + len)
         IN  IF r.ok
             THEN IF pat[k].t = "cap"
                  THEN [ok |-> TRUE, cap |-> SubSeq(s, i, i + len - 1)]
                  ELSE r
             ELSE TryLen(pat, k, s, i, len - 1)

RECURSIVE SearchFrom(_, _, _)
SearchFrom(pat, s, i) ==
    IF i > Len(s) + 1 THEN NoMatch
    ELSE LET r == MatchFrom(pat, 1, s, i)
         IN  IF r.ok THEN r ELSE SearchFrom(pat, s, i + 1)

\* String.prototype.match(pattern): ok, and match[1] (empty when the pattern has no group)
match(s, pat) == SearchFrom(pat, s, 1)

\* commandPatterns: per family the primary pattern, then the altPatterns
pAddTask == <<Lit(wAdd), Ws, Lit(wTask), Ws, Cap>>
pAdd == <<Lit(wAdd), Ws, Cap>>
pCreateTask == <<Lit(wCreate), Ws, Lit(wTask), Ws, Cap>>
pNewTask == <<Lit(wNew), Ws, Lit(wTask), Ws, Cap>>
pMarkAsDone == <<Lit(wMark), Ws, Cap, Ws, Lit(wAs), Ws, Lit(wDone)>>
pComplete == <<Lit(wComplete), Ws, Cap>>
pFinish == <<Lit(wFinish), Ws, Cap>>
pCheckOff == <<Lit(wCheck), Ws, Lit(wOff), Ws, Cap>>
pDeleteTask == <<Lit(wDelete), Ws, Lit(wTask), Ws, Cap>>
pRemoveTask == <<Lit(wRemove), Ws, Lit(wTask), Ws, Cap>>
pDelete == <<Lit(wDelete), Ws, Cap>>
pRemove == <<Lit(wRemove), Ws, Cap>>
pClearAllTasks == <<Lit(wClear), Ws, Lit(wAll), Ws, Lit(wTasks)>>
pClearTasks == <<Lit(wClear), Ws, Lit(wTasks)>>
pDeleteAllTasks == <<Lit(wDelete), Ws, Lit(wAll), Ws, Lit(wTasks)>>
pRemoveAllTasks == <<Lit(wRemove), Ws, Lit(wAll), Ws, Lit(wTasks)>>

\* a variant of commandPatterns that tries the mark family before the add family
commandPatternsMarkFirst ==
    << [name |-> "mark", patterns |-> <<pMarkAsDone, pComplete, pFinish, pCheckOff>>],
       [name |-> "add", patterns |-> <<pAddTask, pAdd, pCreateTask, pNewTask>>],
       [name |-> "delete", patterns |-> <<pDeleteTask, pRemoveTask, pDelete, pRemove>>],
       [name |-> "clear",
        patterns |-> <<pClearAllTasks, pClearTasks, pDeleteAllTasks, pRemoveAllTasks>>] >>

commandPatterns ==
    << [name |-> "add", patterns |-> <<pAddTask, pAdd, pCreateTask, pNewTask>>],
       [name |-> "mark", patterns |-> <<pMarkAsDone, pComplete, pFinish, pCheckOff>>],
       [name |-> "delete", patterns |-> <<pDeleteTask, pRemoveTask, pDelete, pRemove>>],
       [name |-> "clear",
        patterns |-> <<pClearAllTasks, pClearTasks, pDeleteAllTasks, pRemoveAllTasks>>] >>

\* the first pattern of pats, from the j-th on, that matches
RECURSIVE FirstPattern(_, _, _)
FirstPattern(s, pats, j) ==
    IF j > Len(pats) THEN NoMatch
    ELSE LET r == match(s, pats[j])
         IN  IF r.ok THEN r ELSE FirstPattern(s, pats, j + 1)

\* a variant of the loop that returns an empty content when no family matches
RECURSIVE FirstFamilyUnknownEmpty(_, _, _)
FirstFamilyUnknownEmpty(lowerInput, cmds, c) ==
    IF c > Len(cmds) THEN [command |-> "unknown", content |-> <<>>]
    ELSE LET r == FirstPattern(lowerInput, cmds[c].patterns, 1)
         IN  IF r.ok THEN [command |-> cmds[c].name, content |-> r.cap]
             ELSE FirstFamilyUnknownEmpty(lowerInput, cmds, c + 1)

\* the loop over commandPatterns, from the c-th family on
RECURSIVE FirstFamily(_, _, _)
FirstFamily(lowerInput, cmds, c) ==
    IF c > Len(cmds) THEN [command |-> "unknown", content |-> lowerInput]
    ELSE LET r == FirstPattern(lowerInput, cmds[c].patterns, 1)
         IN  IF r.ok THEN [command |-> cmds[c].name, content |-> r.cap]
             ELSE FirstFamily(lowerInput, cmds, c + 1)

\* a variant of findBestCommandMatch that does not trim its input
findBestCommandMatchUntrimmed(input) ==
    FirstFamily(toLowerCase(input), commandPatterns, 1)

\* a variant of findBestCommandMatch that keeps the letter case of its input
findBestCommandMatchCased(input) ==
    FirstFamily(trim(input), commandPatterns, 1)

findBestCommandMatch(input) ==
    FirstFamily(trim(toLowerCase(input)), commandPatterns, 1)

-----------------------------------------------------------------------------
(* Bounds of the model *)

MaxTasks == 1        \* the task list is explored up to this length
MaxClock == 1        \* Date.now() takes the values 0..MaxClock
MaxLive == 1         \* recognition objects that are still live besides the current one
MaxResults == 2      \* entries of one recognition session's cumulative result list
MaxStoreTasks == 3   \* the task list of the store specification is explored up to this length

\* what the engine reports as one result's best alternative
Segments == { Say(<<wAdd, <<"x">>>>) }

\* what the user types into the edit field
Edits == { <<>>, Say(<<wClear, wTasks>>) }

\* engine error codes (SpeechRecognitionErrorEvent.error)
ErrorCodes == { <<"no-speech">> }

-----------------------------------------------------------------------------
(* Status messages *)

Fb(msg, arg) == [msg |-> msg, arg |-> arg]
NoFeedback == Fb("", <<>>)

-----------------------------------------------------------------------------
(* Task Store: the updater functions handed to setTasks *)

\* task.content.toLowerCase().includes(taskContent.toLowerCase())
ContentMatches(task, taskContent) ==
    includes(toLowerCase(task.content), toLowerCase(taskContent))

\* a variant of addTask's updater that puts the new task first
addTaskFirst(prevTasks, content, dateNow) ==
    <<[id |-> dateNow, content |-> content, completed |-> FALSE]>> \o prevTasks

\* addTask's updater: [...prevTasks, { id: Date.now(), content, completed: false }]
addTask(prevTasks, content, dateNow) ==
    Append(prevTasks, [id |-> dateNow, content |-> content, completed |-> FALSE])

\* a variant of markTaskAsDone's updater that stops at the first matching task
markFirstMatch(prevTasks, taskContent) ==
    LET hits == {i \in 1..Len(prevTasks) : ContentMatches(prevTasks[i], taskContent)}
    IN  [i \in 1..Len(prevTasks) |->
            IF i \in hits /\ \A j \in hits : i <= j
            THEN [prevTasks[i] EXCEPT !.completed = TRUE]
            ELSE prevTasks[i]]

\* markTaskAsDone's updater: prevTasks.map(...)
markTaskAsDoneMap(prevTasks, taskContent) ==
    [i \in 1..Len(prevTasks) |->
        IF ContentMatches(prevTasks[i], taskContent)
        THEN [prevTasks[i] EXCEPT !.completed = TRUE]
        ELSE prevTasks[i]]

\* markTaskAsDone: the flag found is set inside the updater, so it is true at the
\* test only if React ran the updater eagerly (eager) and some task matched
markTaskAsDone(prevTasks, taskContent, eager) ==
    LET found == eager /\ \E i \in 1..Len(prevTasks) : ContentMatches(prevTasks[i], taskContent)
    IN  [tasks |-> markTaskAsDoneMap(prevTasks, taskContent),
         fb |-> IF found THEN Fb("Marked tasks containing \"$\" as done", taskContent)
                ELSE Fb("No tasks found matching \"$\"", taskContent)]

\* a variant of deleteTask's updater that removes the first matching task only
deleteFirstMatch(prevTasks, taskContent) ==
    LET hits == {i \in 1..Len(prevTasks) : ContentMatches(prevTasks[i], taskContent)}
    IN  IF hits = {}
        THEN prevTasks
        ELSE LET k == CHOOSE i \in hits : \A j \in hits : i <= j
             IN  SubSeq(prevTasks, 1, k - 1) \o SubSeq(prevTasks, k + 1, Len(prevTasks))

\* deleteTask's updater: prevTasks.filter(...)
deleteTaskFilter(prevTasks, taskContent) ==
    SelectSeq(prevTasks, LAMBDA task : ~ContentMatches(task, taskContent))

\* deleteTask: initialLength and tasks.length read the same rendered list
deleteTask(prevTasks, taskContent) ==
    LET initialLength == Len(prevTasks)
    IN  [tasks |-> deleteTaskFilter(prevTasks, taskContent),
         fb |-> IF Len(prevTasks) # initialLength
                THEN Fb("Deleted task containing \"$\"", taskContent)
                ELSE Fb("No task found matching \"$\"", taskContent)]

\* handleManualDelete's updater
manualDelete(prevTasks, id) == SelectSeq(prevTasks, LAMBDA task : task.id # id)

\* a variant of handleManualToggle's updater that completes the task
manualToggleSets(prevTasks, id) ==
    [i \in 1..Len(prevTasks) |->
        IF prevTasks[i].id = id
        THEN [prevTasks[i] EXCEPT !.completed = TRUE]
        ELSE prevTasks[i]]

\* handleManualToggle's updater
manualToggle(prevTasks, id) ==
    [i \in 1..Len(prevTasks) |->
        IF prevTasks[i].id = id
        THEN [prevTasks[i] EXCEPT !.completed = ~prevTasks[i].completed]
        ELSE prevTasks[i]]

\* a variant of processVoiceCommand whose clear command keeps the open tasks
processVoiceCommandClearsDone(command, prevTasks, dateNow, eager) ==
    LET m == findBestCommandMatch(command)
        content == m.content
    IN  CASE m.command = "add" ->
               IF content # <<>>
               THEN [tasks |-> addTask(prevTasks, content, dateNow),
                     fb |-> Fb("Added task: \"$\"", content)]
               ELSE [tasks |-> prevTasks, fb |-> Fb("No task content specified", <<>>)]
          [] m.command = "mark" ->
               IF content # <<>>
               THEN markTaskAsDone(prevTasks, content, eager)
               ELSE [tasks |-> prevTasks, fb |-> Fb("No task specified to mark as done", <<>>)]
          [] m.command = "delete" ->
               IF content # <<>>
               THEN deleteTask(prevTasks, content)
               ELSE [tasks |-> prevTasks, fb |-> Fb("No task specified to delete", <<>>)]
          [] m.command = "clear" ->
               [tasks |-> SelectSeq(prevTasks, LAMBDA task : ~task.completed),
                fb |-> Fb("All tasks cleared", <<>>)]
          [] OTHER ->
               [tasks |-> prevTasks, fb |-> Fb("Didn't recognize command: \"$\"", command)]

\* processVoiceCommand: the task list and the status it sets (dateNow is what
\* Date.now() returns if addTask calls it)
processVoiceCommand(command, prevTasks, dateNow, eager) ==
    LET m == findBestCommandMatch(command)
        content == m.content
    IN  CASE m.command = "add" ->
               IF content # <<>>
               THEN [tasks |-> addTask(prevTasks, content, dateNow),
                     fb |-> Fb("Added task: \"$\"", content)]
               ELSE [tasks |-> prevTasks, fb |-> Fb("No task content specified", <<>>)]
          [] m.command = "mark" ->
               IF content # <<>>
               THEN markTaskAsDone(prevTasks, content, eager)
               ELSE [tasks |-> prevTasks, fb |-> Fb("No task specified to mark as done", <<>>)]
          [] m.command = "delete" ->
               IF content # <<>>
               THEN deleteTask(prevTasks, content)
               ELSE [tasks |-> prevTasks, fb |-> Fb("No task specified to delete", <<>>)]
          [] m.command = "clear" ->
               [tasks |-> <<>>, fb |-> Fb("All tasks cleared", <<>>)]
          [] OTHER ->
               [tasks |-> prevTasks, fb |-> Fb("Didn't recognize command: \"$\"", command)]

-----------------------------------------------------------------------------
(* The recognition objects.  Each run of the effect creates one and binds  *)
(* its four handlers to the render it ran in, so the object carries the    *)
(* value of listening its onend handler sees (cap).  st, started and       *)
(* results are the engine's side: st is "inactive", "active" (start() was  *)
(* called) or "stopping" (stop() was called and the end event is still to  *)
(* come); started tells whether the start event was delivered; results is  *)
(* the session's cumulative SpeechRecognitionResultList.                   *)

NewRec(cap) == [cap |-> cap, st |-> "inactive", started |-> FALSE, results |-> <<>>]

\* recognitionRef.current is the object the effect created last (0: null)
Current == Len(recs)

\* SpeechRecognition.stop(): ignored unless the object is active
EngineStop(r) == IF r.st = "active" THEN [r EXCEPT !.st = "stopping"] ELSE r

\* SpeechRecognition.start() throws on an object that was started and has not ended,
\* and when the engine rejects the call (rejects)
StartThrows(r, rejects) == r.st # "inactive" \/ rejects

EngineStart(r) == [r EXCEPT !.st = "active", !.started = FALSE, !.results = <<>>]

\* the objects that still have events to deliver
Live(rs) == SelectSeq(rs, LAMBDA r : r.st # "inactive")

\* what window.SpeechGrammarList does when setupSpeechGrammars runs
GrammarOutcomes == {"absent", "ok", "throws"}

\* setupSpeechGrammars: the status it leaves
setupSpeechGrammars(fb, g) ==
    CASE g = "ok" -> Fb("Voice command grammars initialized", <<>>)
      [] g = "throws" -> Fb("Grammar support not available in this browser", <<>>)
      [] OTHER -> fb

\* The effect of useEffect(..., [listening]) after a render in which listening changed:
\* the previous run's cleanup stops recognitionRef.current, then a new object is
\* created with handlers that see the new value of listening.  An object that is
\* not current and has no event to deliver is out of the program's reach.
EffectRecs(rs, newListening) ==
    LET stopped == [rs EXCEPT ![Len(rs)] = EngineStop(rs[Len(rs)])]
    IN  Append(Live(stopped), NewRec(newListening))

\* the record of a handler's run: the engine start() and stop() calls it made, the
\* status processVoiceCommand set in it, and the task list it found if it changed it
Event(name, starts, stops, fb, pre) ==
    [name |-> name, starts |-> starts, stops |-> stops, fb |-> fb, pre |-> pre]

\* a variant of clearInputs that leaves processingCommand as it is
clearInputsKeepPending ==
    /\ transcript' = <<>>
    /\ editedTranscript' = <<>>
    /\ isEditing' = FALSE
    /\ UNCHANGED processingCommand

\* clearInputs
clearInputs ==
    /\ transcript' = <<>>
    /\ editedTranscript' = <<>>
    /\ isEditing' = FALSE
    /\ processingCommand' = FALSE

-----------------------------------------------------------------------------
(* Initial state: the component after its first render and effect *)

NoResult == [command |-> "none", content |-> <<>>]
NoInput == [s |-> <<>>, kind |-> "none", x |-> <<>>]

InitSession ==
    /\ listening = FALSE
    /\ transcript = <<>>
    /\ editedTranscript = <<>>
    /\ processingCommand = FALSE
    /\ isEditing = FALSE
    /\ supported \in BOOLEAN
    /\ feedback \in IF supported
                    THEN {setupSpeechGrammars(NoFeedback, g) : g \in GrammarOutcomes}
                    ELSE {Fb("Speech recognition not supported in this browser", <<>>)}
    /\ recs = IF supported THEN <<NewRec(FALSE)>> ELSE <<>>
    /\ ev = Event("mount", 0, 0, NoFeedback, <<>>)

Init ==
    /\ InitSession
    /\ tasks = <<>>
    /\ now = 0
    /\ mInput = NoInput
    /\ mResult = NoResult

-----------------------------------------------------------------------------
(* User actions.  Each is the handler together with the render and the     *)
(* effect its state updates cause.  A handler is enabled when the control  *)
(* it is bound to is rendered and not disabled.                            *)

\* a variant of toggleListening that keeps the transcripts when it stops
ToggleListeningKeepsInputs(rejects, g) ==
    /\ IF Current = 0
       THEN /\ feedback' = Fb("Speech recognition not initialized", <<>>)
            /\ ev' = Event("toggleListening", 0, 0, NoFeedback, <<>>)
            /\ UNCHANGED <<listening, transcript, editedTranscript, isEditing,
                           processingCommand, recs>>
       ELSE IF listening
       THEN /\ listening' = FALSE
            /\ recs' = EffectRecs([recs EXCEPT ![Current] = EngineStop(recs[Current])], FALSE)
            /\ feedback' = setupSpeechGrammars(Fb("Listening stopped", <<>>), g)
            /\ ev' = Event("toggleListening", 0, 2, NoFeedback, <<>>)
            /\ UNCHANGED <<transcript, editedTranscript, isEditing, processingCommand>>
       ELSE IF StartThrows(recs[Current], rejects)
       THEN /\ clearInputs
            /\ feedback' = Fb("Couldn't start listening: $", <<"start failed">>)
            /\ ev' = Event("toggleListening", 1, 0, NoFeedback, <<>>)
            /\ UNCHANGED <<listening, recs>>
       ELSE /\ clearInputs
            /\ listening' = TRUE
            /\ recs' = EffectRecs([recs EXCEPT ![Current] = EngineStart(recs[Current])], TRUE)
            /\ feedback' = setupSpeechGrammars(feedback, g)
            /\ ev' = Event("toggleListening", 1, 1, NoFeedback, <<>>)
    /\ UNCHANGED <<tasks, supported, now, matcherVars>>

\* a variant of toggleListening that sets listening before it calls start()
ToggleListeningOptimistic(rejects, g) ==
    /\ IF Current = 0
       THEN /\ feedback' = Fb("Speech recognition not initialized", <<>>)
            /\ ev' = Event("toggleListening", 0, 0, NoFeedback, <<>>)
            /\ UNCHANGED <<listening, transcript, editedTranscript, isEditing,
                           processingCommand, recs>>
       ELSE IF listening
       THEN /\ listening' = FALSE
            /\ clearInputs
            /\ recs' = EffectRecs([recs EXCEPT ![Current] = EngineStop(recs[Current])], FALSE)
            /\ feedback' = setupSpeechGrammars(Fb("Listening stopped", <<>>), g)
            /\ ev' = Event("toggleListening", 0, 2, NoFeedback, <<>>)
       ELSE IF StartThrows(recs[Current], rejects)
       THEN /\ clearInputs
            /\ listening' = TRUE
            /\ recs' = EffectRecs(recs, TRUE)
            /\ feedback' = Fb("Couldn't start listening: $", <<"start failed">>)
            /\ ev' = Event("toggleListening", 1, 1, NoFeedback, <<>>)
       ELSE /\ clearInputs
            /\ listening' = TRUE
            /\ recs' = EffectRecs([recs EXCEPT ![Current] = EngineStart(recs[Current])], TRUE)
            /\ feedback' = setupSpeechGrammars(feedback, g)
            /\ ev' = Event("toggleListening", 1, 1, NoFeedback, <<>>)
    /\ UNCHANGED <<tasks, supported, now, matcherVars>>

\* toggleListening (the microphone button is always rendered); rejects: the engine
\* rejects the start() call, g: what setupSpeechGrammars meets when the effect runs
ToggleListening(rejects, g) ==
    /\ IF Current = 0
       THEN /\ feedback' = Fb("Speech recognition not initialized", <<>>)
            /\ ev' = Event("toggleListening", 0, 0, NoFeedback, <<>>)
            /\ UNCHANGED <<listening, transcript, editedTranscript, isEditing,
                           processingCommand, recs>>
       ELSE IF listening
       THEN /\ listening' = FALSE
            /\ clearInputs
            /\ recs' = EffectRecs([recs EXCEPT ![Current] = EngineStop(recs[Current])], FALSE)
            /\ feedback' = setupSpeechGrammars(Fb("Listening stopped", <<>>), g)
            /\ ev' = Event("toggleListening", 0, 2, NoFeedback, <<>>)
       ELSE IF StartThrows(recs[Current], rejects)
       THEN /\ clearInputs
            /\ feedback' = Fb("Couldn't start listening: $", <<"start failed">>)
            /\ ev' = Event("toggleListening", 1, 0, NoFeedback, <<>>)
            /\ UNCHANGED <<listening, recs>>
       ELSE /\ clearInputs
            /\ listening' = TRUE
            /\ recs' = EffectRecs([recs EXCEPT ![Current] = EngineStart(recs[Current])], TRUE)
            /\ feedback' = setupSpeechGrammars(feedback, g)
            /\ ev' = Event("toggleListening", 1, 1, NoFeedback, <<>>)
    /\ UNCHANGED <<tasks, supported, now, matcherVars>>

\* toggleEditing (the edit buttons are rendered when processingCommand or transcript)
ToggleEditing ==
    /\ processingCommand \/ transcript # <<>>
    /\ isEditing' = ~isEditing
    /\ ev' = Event("toggleEditing", 0, 0, NoFeedback, <<>>)
    /\ UNCHANGED <<tasks, listening, transcript, editedTranscript, feedback, processingCommand,
                   recs, supported, now, matcherVars>>

\* handleTranscriptChange (the input is rendered when transcript and isEditing)
HandleTranscriptChange(value) ==
    /\ transcript # <<>> /\ isEditing
    /\ value # editedTranscript
    /\ editedTranscript' = value
    /\ ev' = Event("handleTranscriptChange", 0, 0, NoFeedback, <<>>)
    /\ UNCHANGED <<tasks, listening, transcript, feedback, processingCommand, isEditing,
                   recs, supported, now, matcherVars>>

\* a variant of finishCurrentCommand that clears the inputs when there is no command
FinishCurrentCommandClears(eager, dateNow) ==
    /\ processingCommand \/ transcript # <<>>
    /\ IF processingCommand /\ trim(editedTranscript) # <<>>
       THEN \E r \in {processVoiceCommand(editedTranscript, tasks, dateNow, eager)} :
                /\ tasks' = r.tasks
                /\ now' = IF Len(r.tasks) > Len(tasks) THEN dateNow ELSE now
                /\ clearInputs
                /\ feedback' = Fb("Command processed", <<>>)
                /\ ev' = Event("finishCurrentCommand", 0, 0, r.fb, tasks)
       ELSE /\ feedback' = Fb("No command to process", <<>>)
            /\ clearInputs
            /\ ev' = Event("finishCurrentCommand", 0, 0, NoFeedback, <<>>)
            /\ UNCHANGED <<tasks, now>>
    /\ UNCHANGED <<listening, recs, supported, matcherVars>>

\* a variant of finishCurrentCommand that processes the recognised transcript
\* instead of the edited one
FinishCurrentCommandRaw(eager, dateNow) ==
    /\ processingCommand \/ transcript # <<>>
    /\ IF processingCommand /\ trim(editedTranscript) # <<>>
       THEN \E r \in {processVoiceCommand(transcript, tasks, dateNow, eager)} :
                /\ tasks' = r.tasks
                /\ now' = IF Len(r.tasks) > Len(tasks) THEN dateNow ELSE now
                /\ clearInputs
                /\ feedback' = Fb("Command processed", <<>>)
                /\ ev' = Event("finishCurrentCommand", 0, 0, r.fb, tasks)
       ELSE /\ feedback' = Fb("No command to process", <<>>)
            /\ ev' = Event("finishCurrentCommand", 0, 0, NoFeedback, <<>>)
            /\ UNCHANGED <<tasks, now, transcript, editedTranscript, isEditing,
                           processingCommand>>
    /\ UNCHANGED <<listening, recs, supported, matcherVars>>

\* finishCurrentCommand (the square button is enabled when processingCommand, the
\* "Process Command" button is rendered when transcript); dateNow: what Date.now()
\* returns, eager: React runs the updater of setTasks at once
FinishCurrentCommand(eager, dateNow) ==
    /\ processingCommand \/ transcript # <<>>
    /\ IF processingCommand /\ trim(editedTranscript) # <<>>
       THEN \E r \in {processVoiceCommand(editedTranscript, tasks, dateNow, eager)} :
                /\ tasks' = r.tasks
                /\ now' = IF Len(r.tasks) > Len(tasks) THEN dateNow ELSE now
                /\ clearInputs
                /\ feedback' = Fb("Command processed", <<>>)
                /\ ev' = Event("finishCurrentCommand", 0, 0, r.fb, tasks)
       ELSE /\ feedback' = Fb("No command to process", <<>>)
            /\ ev' = Event("finishCurrentCommand", 0, 0, NoFeedback, <<>>)
            /\ UNCHANGED <<tasks, now, transcript, editedTranscript, isEditing,
                           processingCommand>>
    /\ UNCHANGED <<listening, recs, supported, matcherVars>>

\* a variant of cancelCurrentCommand that leaves the edit field open
CancelCurrentCommandKeepsEditing ==
    /\ transcript # <<>>
    /\ transcript' = <<>>
    /\ editedTranscript' = <<>>
    /\ processingCommand' = FALSE
    /\ feedback' = Fb("Command cancelled", <<>>)
    /\ ev' = Event("cancelCurrentCommand", 0, 0, NoFeedback, <<>>)
    /\ UNCHANGED <<tasks, listening, isEditing, recs, supported, now, matcherVars>>

\* cancelCurrentCommand (the "Cancel" button is rendered when transcript)
CancelCurrentCommand ==
    /\ transcript # <<>>
    /\ clearInputs
    /\ feedback' = Fb("Command cancelled", <<>>)
    /\ ev' = Event("cancelCurrentCommand", 0, 0, NoFeedback, <<>>)
    /\ UNCHANGED <<tasks, listening, recs, supported, now, matcherVars>>

\* handleManualDelete (the trash button of the i-th rendered task)
HandleManualDelete(i) ==
    /\ i \in 1..Len(tasks)
    /\ tasks' = manualDelete(tasks, tasks[i].id)
    /\ ev' = Event("handleManualDelete", 0, 0, NoFeedback, tasks)
    /\ UNCHANGED <<listening, transcript, editedTranscript, feedback, processingCommand,
                   isEditing, recs, supported, now, matcherVars>>

\* handleManualToggle (the check button of the i-th rendered task)
HandleManualToggle(i) ==
    /\ i \in 1..Len(tasks)
    /\ tasks' = manualToggle(tasks, tasks[i].id)
    /\ ev' = Event("handleManualToggle", 0, 0, NoFeedback, tasks)
    /\ UNCHANGED <<listening, transcript, editedTranscript, feedback, processingCommand,
                   isEditing, recs, supported, now, matcherVars>>

-----------------------------------------------------------------------------
(* Engine events, delivered to the handlers of the object they belong to.  *)
(* An object has events to deliver from its start() call until its end     *)
(* event; after stop() the engine may still return results for the audio   *)
(* it captured.                                                            *)

HasEvents(r) == r.st \in {"active", "stopping"}

\* the current object and the other objects that still have events to deliver
Collect(rs) == Live(SubSeq(rs, 1, Len(rs) - 1)) \o <<rs[Len(rs)]>>

\* a variant of onstart that also empties the task list
OnStartClearsTasks(i) ==
    /\ i \in 1..Len(recs)
    /\ HasEvents(recs[i]) /\ ~recs[i].started
    /\ recs' = [recs EXCEPT ![i].started = TRUE]
    /\ clearInputs
    /\ tasks' = <<>>
    /\ feedback' = Fb("Listening... (Language: English)", <<>>)
    /\ ev' = Event("onstart", 0, 0, NoFeedback, <<>>)
    /\ UNCHANGED <<listening, supported, now, matcherVars>>

\* onstart
OnStart(i) ==
    /\ i \in 1..Len(recs)
    /\ HasEvents(recs[i]) /\ ~recs[i].started
    /\ recs' = [recs EXCEPT ![i].started = TRUE]
    /\ clearInputs
    /\ feedback' = Fb("Listening... (Language: English)", <<>>)
    /\ ev' = Event("onstart", 0, 0, NoFeedback, <<>>)
    /\ UNCHANGED <<tasks, listening, supported, now, matcherVars>>

\* onresult: the engine either adds a result to the session's list or revises the
\* last (interim) one; the handler joins the best alternative of every result
OnResult(i, seg, revise) ==
    /\ i \in 1..Len(recs)
    /\ HasEvents(recs[i]) /\ recs[i].started
    /\ revise => recs[i].results # <<>>
    /\ LET old == recs[i].results
           results == IF revise THEN [old EXCEPT ![Len(old)] = seg] ELSE Append(old, seg)
           currentTranscript == joinAll(results)
       IN  /\ Len(results) <= MaxResults
           /\ recs' = [recs EXCEPT ![i].results = results]
           /\ IF trim(currentTranscript) # <<>>
              THEN /\ transcript' = currentTranscript
                   /\ editedTranscript' = currentTranscript
                   /\ processingCommand' = TRUE
              ELSE UNCHANGED <<transcript, editedTranscript, processingCommand>>
    /\ ev' = Event("onresult", 0, 0, NoFeedback, <<>>)
    /\ UNCHANGED <<tasks, listening, feedback, isEditing, supported, now, matcherVars>>

\* a variant of onerror that also leaves the listening state
OnErrorStops(i, code) ==
    /\ i \in 1..Len(recs)
    /\ HasEvents(recs[i])
    /\ feedback' = Fb("Error: $", code)
    /\ clearInputs
    /\ listening' = FALSE
    /\ ev' = Event("onerror", 0, 0, NoFeedback, <<>>)
    /\ UNCHANGED <<tasks, recs, supported, now, matcherVars>>

\* onerror
OnError(i, code) ==
    /\ i \in 1..Len(recs)
    /\ HasEvents(recs[i])
    /\ feedback' = Fb("Error: $", code)
    /\ clearInputs
    /\ ev' = Event("onerror", 0, 0, NoFeedback, <<>>)
    /\ UNCHANGED <<tasks, listening, recs, supported, now, matcherVars>>

\* onend: the handler tests the value of listening it was created with (cap);
\* rejects and g as for toggleListening
OnEnd(i, rejects, g) ==
    /\ i \in 1..Len(recs)
    /\ HasEvents(recs[i])
    /\ LET ended == [recs EXCEPT ![i] = NewRec(recs[i].cap)]
           cur == ended[Len(ended)]
       IN  IF ~recs[i].cap
           THEN /\ recs' = Collect(ended)
                /\ ev' = Event("onend", 0, 0, NoFeedback, <<>>)
                /\ UNCHANGED <<listening, feedback>>
           ELSE IF StartThrows(cur, rejects)
           THEN /\ listening' = FALSE
                /\ recs' = IF listening THEN EffectRecs(ended, FALSE) ELSE Collect(ended)
                /\ feedback' =
                       IF listening
                       THEN setupSpeechGrammars(
                                Fb("Speech recognition stopped unexpectedly", <<>>), g)
                       ELSE Fb("Speech recognition stopped unexpectedly", <<>>)
                /\ ev' = Event("onend", 1, IF listening THEN 1 ELSE 0, NoFeedback, <<>>)
           ELSE /\ recs' = Collect([ended EXCEPT ![Len(ended)] = EngineStart(cur)])
                /\ ev' = Event("onend", 1, 0, NoFeedback, <<>>)
                /\ UNCHANGED <<listening, feedback>>
    /\ UNCHANGED <<tasks, transcript, editedTranscript, processingCommand, isEditing,
                   supported, now, matcherVars>>

-----------------------------------------------------------------------------
(* The application *)

Next ==
    \/ \E rejects \in BOOLEAN, g \in GrammarOutcomes :
          /\ (Current # 0 /\ ~listening) => Len(Live(recs)) < MaxLive
          /\ ToggleListening(rejects, g)
    \/ ToggleEditing
    \/ \E value \in Edits : HandleTranscriptChange(value)
    \/ \E eager \in BOOLEAN, dateNow \in now..MaxClock :
          /\ FinishCurrentCommand(eager, dateNow)
          /\ Len(tasks') <= MaxTasks
    \/ CancelCurrentCommand
    \/ \E i \in 1..MaxTasks : HandleManualDelete(i)
    \/ \E i \in 1..MaxTasks : HandleManualToggle(i)
    \/ \E i \in 1..(MaxLive + 1) : OnStart(i)
    \/ \E i \in 1..(MaxLive + 1), seg \in Segments, revise \in BOOLEAN : OnResult(i, seg, revise)
    \/ \E i \in 1..(MaxLive + 1), code \in ErrorCodes : OnError(i, code)
    \/ \E i \in 1..(MaxLive + 1), rejects \in BOOLEAN, g \in GrammarOutcomes : OnEnd(i, rejects, g)

Spec == Init /\ [][Next]_vars

-----------------------------------------------------------------------------
(* The Task Store under dictated commands: the session is listening, the   *)
(* engine of the object that was started reports one utterance at a time   *)
(* (it revises its single result), and the user confirms or edits the      *)
(* list by hand.                                                           *)

\* what the engine reports in the store specification
StoreCommands ==
    { Say(<<wAdd, wTask, wBuy, wMilk>>),
      Say(<<wAdd, wTask, wCall, wMom>>),
      Say(<<wMark, wMilk, wAs, wDone>>),
      Say(<<wDelete, wTask, wMilk>>),
      Say(<<wClear, wAll, wTasks>>),
      sp }

\* the state after mount, a start request and the engine's start event
InitStore ==
    /\ listening = TRUE
    /\ transcript = <<>>
    /\ editedTranscript = <<>>
    /\ processingCommand = FALSE
    /\ isEditing = FALSE
    /\ supported = TRUE
    /\ feedback = Fb("Listening... (Language: English)", <<>>)
    /\ recs = << [NewRec(FALSE) EXCEPT !.st = "stopping", !.started = TRUE], NewRec(TRUE) >>
    /\ ev = Event("onstart", 0, 0, NoFeedback, <<>>)
    /\ tasks = <<>>
    /\ now = 0
    /\ mInput = NoInput
    /\ mResult = NoResult

NextStore ==
    \/ \E seg \in StoreCommands : OnResult(1, seg, recs[1].results # <<>>)
    \/ \E eager \in BOOLEAN, dateNow \in now..MaxClock :
          /\ FinishCurrentCommand(eager, dateNow)
          /\ Len(tasks') <= MaxStoreTasks
    \/ \E i \in 1..MaxStoreTasks : HandleManualDelete(i)
    \/ \E i \in 1..MaxStoreTasks : HandleManualToggle(i)

SpecStore == InitStore /\ [][NextStore]_vars

-----------------------------------------------------------------------------
(* One transcript: the engine has reported "add x", the user has opened    *)
(* the edit field and typed the transcript; findBestCommandMatch is        *)
(* applied to it, and the user confirms it.                                *)

Leads == { <<>>, sp }
Trails == { <<>>, sp, tab }
Seps == { sp, sp \o sp, tab }
AddForms == { wAdd, <<"A", "D", "D">>, <<"A", "d", "d">> }
TaskForms == { wTask, <<"T", "A", "S", "K">> }
xX == <<"x">>

\* task texts X: non-empty, no whitespace at either end
TaskTexts ==
    { xX, <<"X">>, Say(<<wBuy, wMilk>>), <<"B", "u", "y">> \o sp \o sp \o <<"M", "i", "l", "k">>,
      Say(<<wAdd, wTask, xX>>), Say(<<wMark, xX, wAs, wDone>>), wTask }

\* transcripts of the form "add task X"
AddTaskInputs ==
    { [s |-> lead \o a \o sep1 \o t \o sep2 \o x \o trail, kind |-> "addtask", x |-> x] :
        lead \in Leads, a \in AddForms, sep1 \in Seps, t \in TaskForms, sep2 \in {sp, tab},
        x \in TaskTexts, trail \in Trails }

\* one phrase per pattern, phrases that fit two families, and phrases that fit none
Phrases ==
    { Say(<<wAdd, xX>>), Say(<<wCreate, wTask, xX>>), Say(<<wNew, wTask, xX>>),
      Say(<<wMark, xX, wAs, wDone>>), Say(<<wComplete, xX>>), Say(<<wFinish, xX>>),
      Say(<<wCheck, wOff, xX>>),
      Say(<<wDelete, wTask, xX>>), Say(<<wRemove, wTask, xX>>), Say(<<wDelete, xX>>),
      Say(<<wRemove, xX>>),
      Say(<<wClear, wAll, wTasks>>), Say(<<wClear, wTasks>>), Say(<<wDelete, wAll, wTasks>>),
      Say(<<wRemove, wAll, wTasks>>),
      Say(<<wAdd, wComplete, xX>>), Say(<<wFinish, wAdd, xX>>), Say(<<wComplete, wRemove, xX>>),
      Say(<<wRemove, wTask, wClear, wTasks>>), Say(<<wClear, wTasks, wAdd, xX>>),
      Say(<<wMark, wDelete, xX, wAs, wDone>>), Say(<<wClear, wAll, wTasks, wFinish, xX>>),
      Say(<<wMark, wAdd, wDelete, xX, wAs, wDone>>),
      Say(<<wMark, wBuy, wMilk, wAs, wDone>>), Say(<<wDelete, wTask, wBuy, wMilk>>),
      wAdd \o sp, Say(<<wAdd, wTask>>) \o sp, Say(<<wCreate, wTask>>) \o tab,
      Say(<<wAdd, wTask>>), Say(<<wDelete, wTask>>), Say(<<wMark, wAs, wDone>>),
      wMark \o sp \o sp \o sp \o wAs \o sp \o wDone,
      <<>>, sp, wAdd, Say(<<wBuy, wMilk>>), wAdd \o wTask \o sp \o xX,
      Say(<<wMark, xX, wDone>>), Say(<<wTask, wAdd>>),
      <<"B", "u", "y">> \o sp \o <<"M", "i", "l", "k">> }

PhraseInputs ==
    { [s |-> lead \o ph \o trail, kind |-> "phrase", x |-> <<>>] :
        lead \in Leads, ph \in Phrases, trail \in Trails }

MatcherInputs == AddTaskInputs \cup PhraseInputs

\* the task lists the transcript is confirmed on
MatcherTasks ==
    { <<>>, <<[id |-> 0, content |-> Say(<<wBuy, wMilk>>), completed |-> FALSE]>> }

InitMatcher ==
    /\ listening = TRUE
    /\ transcript = Say(<<wAdd, xX>>)
    /\ mInput \in MatcherInputs
    /\ editedTranscript = mInput.s
    /\ processingCommand = TRUE
    /\ isEditing = TRUE
    /\ supported = TRUE
    /\ tasks \in MatcherTasks
    /\ feedback = IF tasks = <<>> THEN Fb("Listening... (Language: English)", <<>>)
                  ELSE Fb("Command processed", <<>>)
    /\ recs = << [NewRec(FALSE) EXCEPT !.st = "stopping", !.started = TRUE,
                                       !.results = <<Say(<<wAdd, xX>>)>>],
                 NewRec(TRUE) >>
    /\ ev = Event("handleTranscriptChange", 0, 0, NoFeedback, <<>>)
    /\ now = 0
    /\ mResult = NoResult

\* the transcript is handed to findBestCommandMatch
Match ==
    /\ mResult = NoResult
    /\ mResult' = findBestCommandMatch(mInput.s)
    /\ UNCHANGED <<appVars, mInput>>

NextMatcher ==
    \/ Match
    \/ \E eager \in BOOLEAN, dateNow \in now..MaxClock : FinishCurrentCommand(eager, dateNow)

SpecMatcher == InitMatcher /\ [][NextMatcher]_vars

-----------------------------------------------------------------------------
(* Properties of confirming a command *)

\* the step is a run of finishCurrentCommand on a pending command whose edited
\* transcript is not blank
ConfirmStep ==
    /\ ev'.name = "finishCurrentCommand"
    /\ processingCommand
    /\ trim(editedTranscript) # <<>>

\* the content of task contains fragment, letter case ignored
ContainsIgnoringCase(content, fragment) ==
    \E i \in 1..(Len(content) - Len(fragment) + 1) :
        \A j \in 1..Len(fragment) : LowerChar(content[i + j - 1]) = LowerChar(fragment[j])

\* the task lists that one application of the matched command cmd to ts may give
AppliedOnce(cmd, ts) ==
    CASE cmd.command = "add" /\ cmd.content # <<>> ->
           { Append(ts, [id |-> t, content |-> cmd.content, completed |-> FALSE]) :
               t \in 0..MaxClock }
      [] cmd.command = "mark" /\ cmd.content # <<>> ->
           { [i \in 1..Len(ts) |->
                 [ts[i] EXCEPT !.completed =
                     @ \/ ContainsIgnoringCase(ts[i].content, cmd.content)]] }
      [] cmd.command = "delete" /\ cmd.content # <<>> ->
           { SelectSeq(ts, LAMBDA task : ~ContainsIgnoringCase(task.content, cmd.content)) }
      [] cmd.command = "clear" -> { <<>> }
      [] OTHER -> { ts }

\* C1: a confirm of a pending command with a non-blank edited transcript applies the
\* command matched from the edited transcript (not from the recognised one) to the
\* task list exactly once; afterwards both transcripts are empty, isEditing and
\* processingCommand are false, listening is unchanged and the status is
\* "Command processed".
C1_ConfirmAppliesEdited ==
    [][ ConfirmStep =>
          /\ tasks' \in AppliedOnce(findBestCommandMatch(editedTranscript), tasks)
          /\ transcript' = <<>>
          /\ editedTranscript' = <<>>
          /\ isEditing' = FALSE
          /\ processingCommand' = FALSE
          /\ listening' = listening
          /\ feedback' = Fb("Command processed", <<>>) ]_vars

\* a confirm has cleared a non-empty task list: the command came from an edit
\* ("clear tasks" is never dictated in Spec), and the status is "Command processed"
C1_Witness ==
    /\ ev.name = "finishCurrentCommand"
    /\ ev.fb = Fb("All tasks cleared", <<>>)
    /\ ev.pre # <<>>
    /\ tasks = <<>>
    /\ transcript = <<>> /\ editedTranscript = <<>>
    /\ feedback = Fb("Command processed", <<>>)

\* C2: a confirmed "mark ... as done" with fragment F sets completed on every task
\* whose content contains F (letter case ignored) and changes nothing else: the other
\* tasks, every id, every content, the order and the length stay as they were.
C2_MarkDone ==
    [][ LET m == findBestCommandMatch(editedTranscript)
        IN  (ConfirmStep /\ m.command = "mark" /\ m.content # <<>>) =>
              /\ Len(tasks') = Len(tasks)
              /\ \A i \in 1..Len(tasks) :
                    /\ tasks'[i].id = tasks[i].id
                    /\ tasks'[i].content = tasks[i].content
                    /\ tasks'[i].completed =
                          IF ContainsIgnoringCase(tasks[i].content, m.content)
                          THEN TRUE
                          ELSE tasks[i].completed ]_vars

\* a confirmed "mark milk as done" found two open tasks with "milk" and an open task
\* without; the two are completed now and the third is not
C2_Witness ==
    /\ ev.name = "finishCurrentCommand"
    /\ ev.fb.arg = wMilk
    /\ ev.fb.msg \in {"Marked tasks containing \"$\" as done", "No tasks found matching \"$\""}
    /\ Len(ev.pre) = 3 /\ Len(tasks) = 3
    /\ \A i \in 1..3 : ~ev.pre[i].completed
    /\ \E i, j, k \in 1..3 :
          /\ i # j
          /\ ContainsIgnoringCase(ev.pre[i].content, wMilk)
          /\ ContainsIgnoringCase(ev.pre[j].content, wMilk)
          /\ ~ContainsIgnoringCase(ev.pre[k].content, wMilk)
          /\ tasks[i].completed /\ tasks[j].completed /\ ~tasks[k].completed

\* C3: a confirmed "delete task ..." with fragment F removes exactly the tasks whose
\* content contains F (letter case ignored) and keeps the others unchanged and in their
\* order; when no task contains F the list is unchanged and the status deleteTask
\* sets says that no task matched.
C3_Delete ==
    [][ LET m == findBestCommandMatch(editedTranscript)
            hit(task) == ContainsIgnoringCase(task.content, m.content)
        IN  (ConfirmStep /\ m.command = "delete" /\ m.content # <<>>) =>
              /\ tasks' = SelectSeq(tasks, LAMBDA task : ~hit(task))
              /\ (\A i \in 1..Len(tasks) : ~hit(tasks[i])) =>
                    /\ tasks' = tasks
                    /\ ev'.fb = Fb("No task found matching \"$\"", m.content) ]_vars

\* a confirmed "delete task milk" found two tasks with "milk" around a task without,
\* and left that task alone
C3_Witness ==
    /\ ev.name = "finishCurrentCommand"
    /\ ev.fb = Fb("No task found matching \"$\"", wMilk)
    /\ Len(ev.pre) = 3
    /\ ContainsIgnoringCase(ev.pre[1].content, wMilk)
    /\ ~ContainsIgnoringCase(ev.pre[2].content, wMilk)
    /\ ContainsIgnoringCase(ev.pre[3].content, wMilk)
    /\ tasks = <<ev.pre[2]>>

\* C4: a confirmed "add task X" appends exactly one task with content X and completed
\* false at the end of the list and leaves the tasks that were there unchanged; from
\* the empty list "add task buy milk" gives exactly one open task "buy milk".
C4_AddAppends ==
    [][ LET m == findBestCommandMatch(editedTranscript)
        IN  (ConfirmStep /\ m.command = "add" /\ m.content # <<>>) =>
              /\ Len(tasks') = Len(tasks) + 1
              /\ SubSeq(tasks', 1, Len(tasks)) = tasks
              /\ tasks'[Len(tasks')].content = m.content
              /\ tasks'[Len(tasks')].completed = FALSE
              /\ (tasks = <<>> /\ editedTranscript = Say(<<wAdd, wTask, wBuy, wMilk>>)) =>
                    /\ Len(tasks') = 1
                    /\ tasks'[1].content = Say(<<wBuy, wMilk>>)
                    /\ ~tasks'[1].completed ]_vars

\* a confirmed "add task call mom" found the task "buy milk" and put "call mom" after it
C4_Witness ==
    /\ ev.name = "finishCurrentCommand"
    /\ ev.fb = Fb("Added task: \"$\"", Say(<<wCall, wMom>>))
    /\ Len(ev.pre) = 1
    /\ ev.pre[1].content = Say(<<wBuy, wMilk>>)
    /\ Len(tasks) = 2
    /\ tasks[1] = ev.pre[1]
    /\ tasks[2].content = Say(<<wCall, wMom>>)
    /\ ~tasks[2].completed

-----------------------------------------------------------------------------
(* Properties of the Command Matcher *)

\* C5: a transcript "add task X" (any letter case, any whitespace around it) is
\* matched to the add command with content X in lower case and trimmed.
C5_AddTaskContent ==
    (mResult # NoResult /\ mInput.kind = "addtask") =>
        mResult = [command |-> "add", content |-> trim(toLowerCase(mInput.x))]

\* "add task X" was matched with capitals in the verb and in X and with whitespace
\* before and after
C5_Witness ==
    /\ mInput.kind = "addtask"
    /\ mResult.command = "add"
    /\ mInput.x = <<"B", "u", "y">> \o sp \o sp \o <<"M", "i", "l", "k">>
    /\ SubSeq(mInput.s, 1, 4) = sp \o <<"A", "D", "D">>
    /\ <<mInput.s[Len(mInput.s)]>> = tab
    /\ mResult.content = <<"b", "u", "y">> \o sp \o sp \o <<"m", "i", "l", "k">>

\* the patterns of each family, primary and fallback
AddFamily == {pAddTask, pAdd, pCreateTask, pNewTask}
MarkFamily == {pMarkAsDone, pComplete, pFinish, pCheckOff}
DeleteFamily == {pDeleteTask, pRemoveTask, pDelete, pRemove}
ClearFamily == {pClearAllTasks, pClearTasks, pDeleteAllTasks, pRemoveAllTasks}

\* some pattern of the family matches the normalised transcript
Fits(family, input) == \E pat \in family : match(trim(toLowerCase(input)), pat).ok

\* C6: the families are tried in the order add, mark, delete, clear, and the first
\* family one of whose patterns (primary or fallback) matches gives the command.
C6_FamilyPriority ==
    mResult # NoResult =>
        mResult.command =
            IF Fits(AddFamily, mInput.s) THEN "add"
            ELSE IF Fits(MarkFamily, mInput.s) THEN "mark"
            ELSE IF Fits(DeleteFamily, mInput.s) THEN "delete"
            ELSE IF Fits(ClearFamily, mInput.s) THEN "clear"
            ELSE "unknown"

\* a transcript that fits the add family by a fallback pattern only, and the mark
\* family by its primary pattern, was matched to add
C6_Witness ==
    /\ mResult.command = "add"
    /\ ~match(trim(toLowerCase(mInput.s)), pAddTask).ok
    /\ match(trim(toLowerCase(mInput.s)), pMarkAsDone).ok
    /\ Fits(DeleteFamily, mInput.s)

-----------------------------------------------------------------------------
(* Properties of the recognition session *)

\* C7: when the engine ends the recognition stream, the onend handler calls start()
\* exactly once if listening is true and not at all if listening is false.
C7_RestartOnEnd ==
    [][ ev'.name = "onend" => ev'.starts = (IF listening THEN 1 ELSE 0) ]_vars

\* C8: when the stream ends while listening is true and the engine rejects the
\* restart, the handler has made its one start() call, listening becomes false and
\* the status is "Speech recognition stopped unexpectedly".
C8_RestartFailure ==
    [][ \A i \in 1..(MaxLive + 1), g \in GrammarOutcomes :
          (listening /\ OnEnd(i, TRUE, g)) =>
              /\ ev'.starts = 1
              /\ listening' = FALSE
              /\ feedback' = Fb("Speech recognition stopped unexpectedly", <<>>) ]_vars

-----------------------------------------------------------------------------
(* Properties of the state *)

\* C9: the ids of the tasks in the list are pairwise distinct.
C9_UniqueIds ==
    \A i, j \in 1..Len(tasks) : i # j => tasks[i].id # tasks[j].id

\* C10 as stated: processingCommand is true exactly when the edited transcript is
\* not blank.
C10_PendingIffEdited ==
    processingCommand <=> trim(editedTranscript) # <<>>

\* C10: processingCommand is true exactly when the recognised transcript is not
\* blank; the edited transcript is blank whenever processingCommand is false, and
\* the user may blank it while the command is pending.
C10_PendingIffTranscript ==
    /\ processingCommand <=> trim(transcript) # <<>>
    /\ ~processingCommand => editedTranscript = <<>>

\* a command is pending and the user has emptied the edit field
C10_Witness ==
    /\ processingCommand
    /\ trim(transcript) # <<>>
    /\ isEditing
    /\ ev.name = "handleTranscriptChange"
    /\ trim(editedTranscript) = <<>>

-----------------------------------------------------------------------------
(* Properties of one confirmed transcript *)

\* the step confirmed the transcript mInput.s and processVoiceCommand ran on it
Confirmed ==
    /\ ev.name = "finishCurrentCommand"
    /\ trim(mInput.s) # <<>>

\* the phrases of the clear family
ClearPhrases ==
    { Say(<<wClear, wAll, wTasks>>), Say(<<wClear, wTasks>>),
      Say(<<wDelete, wAll, wTasks>>), Say(<<wRemove, wAll, wTasks>>) }

\* C11: a transcript that is exactly one of the phrases "clear all tasks", "clear
\* tasks", "delete all tasks", "remove all tasks" is matched to the clear command, and
\* confirming it on a non-empty list empties the list.
C11_ClearFamily ==
    mInput.s \in ClearPhrases =>
        /\ mResult # NoResult => mResult.command = "clear"
        /\ (Confirmed /\ ev.pre # <<>>) => tasks = <<>>

\* C12: the transcript "add task" is matched to the add command with empty content,
\* and confirming it leaves the task list unchanged and sets the status "No task
\* content specified".
C12_AddTaskAlone ==
    mInput.s = Say(<<wAdd, wTask>>) =>
        /\ mResult # NoResult => mResult = [command |-> "add", content |-> <<>>]
        /\ Confirmed =>
              /\ tasks = ev.pre
              /\ ev.fb = Fb("No task content specified", <<>>)

\* C13: a confirmed delete command that removed at least one task leaves the status
\* "Deleted task containing ..." (as the status deleteTask sets, or as the status
\* after the confirm), and the status "No task found matching ..." is left only when
\* no task was removed.
C13_DeleteStatus ==
    LET m == findBestCommandMatch(mInput.s)
        removed == Len(ev.pre) - Len(tasks)
        Reports(fb) == feedback = fb \/ ev.fb = fb
    IN  (Confirmed /\ m.command = "delete" /\ m.content # <<>>) =>
          /\ removed > 0 => Reports(Fb("Deleted task containing \"$\"", m.content))
          /\ Reports(Fb("No task found matching \"$\"", m.content)) => removed = 0

\* C14: with the task "buy milk" in the list, the transcript "mark buy milk as done"
\* is matched to mark with content "buy milk", and after the confirm the task is
\* completed and the status is "Marked tasks containing "buy milk" as done".
C14_MarkStatus ==
    mInput.s = Say(<<wMark, wBuy, wMilk, wAs, wDone>>) =>
        /\ mResult # NoResult =>
              mResult = [command |-> "mark", content |-> Say(<<wBuy, wMilk>>)]
        /\ (Confirmed /\ \E i \in 1..Len(ev.pre) : ev.pre[i].content = Say(<<wBuy, wMilk>>)) =>
              /\ \A i \in 1..Len(tasks) :
                    tasks[i].content = Say(<<wBuy, wMilk>>) => tasks[i].completed
              /\ feedback = Fb("Marked tasks containing \"$\" as done", Say(<<wBuy, wMilk>>))

-----------------------------------------------------------------------------
(* Properties of the handlers *)

\* both transcripts are empty and neither editing nor a command is pending
InputsCleared ==
    /\ transcript = <<>>
    /\ editedTranscript = <<>>
    /\ isEditing = FALSE
    /\ processingCommand = FALSE

\* C15: a confirm when processingCommand is false or the edited transcript is blank
\* sets the status "No command to process" and changes nothing else: the task list, both
\* transcripts, isEditing, processingCommand and listening stay as they were.
C15_NoCommand ==
    [][ (ev'.name = "finishCurrentCommand"
           /\ ~(processingCommand /\ trim(editedTranscript) # <<>>)) =>
          /\ feedback' = Fb("No command to process", <<>>)
          /\ UNCHANGED <<tasks, transcript, editedTranscript, isEditing,
                         processingCommand, listening>> ]_vars

\* the user has confirmed a pending command whose edit field is empty
C15_Witness ==
    /\ ev.name = "finishCurrentCommand"
    /\ feedback = Fb("No command to process", <<>>)
    /\ processingCommand
    /\ transcript # <<>>
    /\ isEditing
    /\ trim(editedTranscript) = <<>>
    /\ tasks # <<>>

\* C16: a cancel empties both transcripts, sets isEditing and processingCommand to
\* false and the status to "Command cancelled", and leaves the task list and listening
\* unchanged; the state it leaves is one a second cancel would leave as it is.
C16_Cancel ==
    [][ ev'.name = "cancelCurrentCommand" =>
          /\ InputsCleared'
          /\ feedback' = Fb("Command cancelled", <<>>)
          /\ tasks' = tasks
          /\ listening' = listening ]_vars

\* a command was cancelled while the session listens and the list holds a task
C16_Witness ==
    /\ ev.name = "cancelCurrentCommand"
    /\ InputsCleared
    /\ feedback = Fb("Command cancelled", <<>>)
    /\ listening
    /\ tasks # <<>>

\* C17: a stop request while listening calls stop() on the recognition object, sets
\* listening to false, empties both transcripts, sets isEditing and processingCommand
\* to false and leaves the task list unchanged.
C17_Stop ==
    [][ (ev'.name = "toggleListening" /\ listening) =>
          /\ ev'.stops >= 1
          /\ ev'.starts = 0
          /\ listening' = FALSE
          /\ InputsCleared'
          /\ tasks' = tasks ]_vars

\* the session was stopped with a task in the list
C17_Witness ==
    /\ ev.name = "toggleListening"
    /\ ev.stops >= 1
    /\ ev.starts = 0
    /\ ~listening
    /\ InputsCleared
    /\ tasks # <<>>

\* C18: a start request that fails leaves listening false and reports the failure:
\* without a recognition object the status is "Speech recognition not initialized" and
\* listening is false in every state; when start() throws, listening stays false and
\* the status is "Couldn't start listening: ..." with the error's message.
C18_StartFailure ==
    [][ /\ (ev'.name = "toggleListening" /\ Current = 0) =>
              /\ feedback' = Fb("Speech recognition not initialized", <<>>)
              /\ listening' = FALSE
        /\ ~supported => (Current = 0 /\ ~listening /\ ~listening')
        /\ \A g \in GrammarOutcomes :
              (Current # 0 /\ ~listening /\ ToggleListening(TRUE, g)) =>
                  /\ listening' = FALSE
                  /\ feedback'.msg = "Couldn't start listening: $"
                  /\ feedback'.arg # <<>> ]_vars

\* a start request succeeded after one that failed: the session listens and the status
\* still shows the failure of the earlier request
C18_Witness ==
    /\ ev.name = "toggleListening"
    /\ ev.starts = 1
    /\ listening
    /\ feedback.msg = "Couldn't start listening: $"
    /\ recs[1].st # "inactive"

\* C19: on an error event the status becomes "Error: " followed by the engine's error
\* code, both transcripts are emptied, isEditing and processingCommand become false, and
\* listening and the task list are unchanged.
C19_EngineError ==
    [][ ev'.name = "onerror" =>
          /\ \E code \in ErrorCodes : feedback' = Fb("Error: $", code)
          /\ InputsCleared'
          /\ listening' = listening
          /\ tasks' = tasks ]_vars

\* an error was reported while the session listens and the list holds a task
C19_Witness ==
    /\ ev.name = "onerror"
    /\ feedback.msg = "Error: $"
    /\ InputsCleared
    /\ listening
    /\ tasks # <<>>

-----------------------------------------------------------------------------
(* Properties of the task contents *)

\* C20: an add command whose content is blank leaves the task list unchanged and sets
\* the status "No task content specified"; no task in the list has an empty or
\* whitespace-only content, whatever transcript is confirmed.
C20_NoBlankTask ==
    /\ \A i \in 1..Len(tasks) : trim(tasks[i].content) # <<>>
    /\ LET m == findBestCommandMatch(mInput.s)
       IN  (Confirmed /\ m.command = "add" /\ trim(m.content) = <<>>) =>
             /\ tasks = ev.pre
             /\ ev.fb = Fb("No task content specified", <<>>)

\* the transcript "add" followed by two whitespace characters was confirmed on the list
\* [buy milk] and no task was added
C20_Witness ==
    /\ ev.name = "finishCurrentCommand"
    /\ mInput.s = wAdd \o sp \o tab
    /\ feedback = Fb("Command processed", <<>>)
    /\ Len(ev.pre) = 1
    /\ tasks = ev.pre

-----------------------------------------------------------------------------
(* Properties of the unknown and the clear command *)

\* no pattern of the four families matches the normalised transcript
FitsNone(input) ==
    /\ ~Fits(AddFamily, input)
    /\ ~Fits(MarkFamily, input)
    /\ ~Fits(DeleteFamily, input)
    /\ ~Fits(ClearFamily, input)

\* C21: a transcript that no pattern of the four families matches, the empty and the
\* whitespace-only transcript included, is matched to unknown with the lower-cased,
\* trimmed transcript as content, and confirming it leaves the task list unchanged.
C21_Unknown ==
    FitsNone(mInput.s) =>
        /\ mResult # NoResult =>
              mResult = [command |-> "unknown", content |-> trim(toLowerCase(mInput.s))]
        /\ Confirmed => tasks = ev.pre
        /\ tasks \in MatcherTasks

\* the transcript " Buy Milk" followed by a tab was matched to unknown with content
\* "buy milk" and confirmed on the list [buy milk], which is unchanged
C21_Witness ==
    /\ mInput.s = sp \o <<"B", "u", "y">> \o sp \o <<"M", "i", "l", "k">> \o tab
    /\ mResult = [command |-> "unknown", content |-> Say(<<wBuy, wMilk>>)]
    /\ ev.name = "finishCurrentCommand"
    /\ ev.fb.msg = "Didn't recognize command: \"$\""
    /\ Len(ev.pre) = 1
    /\ tasks = ev.pre

\* C22: a confirmed clear command leaves the empty task list, whatever the list held
\* (nothing included), and sets the status "All tasks cleared".
C22_Clear ==
    [][ (ConfirmStep /\ findBestCommandMatch(editedTranscript).command = "clear") =>
          /\ tasks' = <<>>
          /\ ev'.fb = Fb("All tasks cleared", <<>>)
          /\ feedback' = Fb("Command processed", <<>>) ]_vars

\* a confirmed clear command found three tasks, open and completed ones, and left none
C22_Witness ==
    /\ ev.name = "finishCurrentCommand"
    /\ ev.fb = Fb("All tasks cleared", <<>>)
    /\ Len(ev.pre) = 3
    /\ \E i, j \in 1..3 : ev.pre[i].completed /\ ~ev.pre[j].completed
    /\ tasks = <<>>

-----------------------------------------------------------------------------
(* Properties of the manual toggle and delete *)

\* the ids a task may carry, and one that no task carries
TaskIds == 0..(MaxClock + 1)

\* C23: the manual toggle applied twice with the same id gives back the task list it
\* started from, for every list and every id; after a toggle by the user, a second
\* toggle of the same task restores the list the first one found.
C23_ToggleTwice ==
    /\ \A id \in TaskIds : manualToggle(manualToggle(tasks, id), id) = tasks
    /\ ev.name = "handleManualToggle" =>
          \E i \in 1..Len(tasks) :
              /\ manualToggle(ev.pre, ev.pre[i].id) = tasks
              /\ manualToggle(tasks, tasks[i].id) = ev.pre

\* the user has toggled a task in a list of three tasks with open and completed ones
C23_Witness ==
    /\ ev.name = "handleManualToggle"
    /\ Len(tasks) = 3
    /\ tasks # ev.pre
    /\ \E i, j \in 1..3 : tasks[i].completed /\ ~tasks[j].completed
    /\ \E i, j \in 1..3 : ev.pre[i].completed /\ ~ev.pre[j].completed

\* lists a and b differ in position k only
OnlyAt(a, b, k) ==
    /\ Len(a) = Len(b)
    /\ \A j \in 1..Len(a) : j # k => a[j] = b[j]

\* C24: the manual toggle flips the completed flag of exactly one task and the manual
\* delete removes exactly one task; every other task keeps its id, content, completed
\* flag and place, and with an id that no task carries both leave the list as it is.
C24_ExactlyOne ==
    /\ ev.name = "handleManualToggle" =>
          \E k \in 1..Len(ev.pre) :
              /\ OnlyAt(tasks, ev.pre, k)
              /\ tasks[k] = [ev.pre[k] EXCEPT !.completed = ~ev.pre[k].completed]
    /\ ev.name = "handleManualDelete" =>
          \E k \in 1..Len(ev.pre) :
              tasks = SubSeq(ev.pre, 1, k - 1) \o SubSeq(ev.pre, k + 1, Len(ev.pre))
    /\ \A id \in TaskIds :
          (\A i \in 1..Len(tasks) : tasks[i].id # id) =>
              /\ manualToggle(tasks, id) = tasks
              /\ manualDelete(tasks, id) = tasks

-----------------------------------------------------------------------------
(* Properties of the session while it listens *)

\* C25: the recognition object started by a start request is not stopped while
\* listening is true: the start request leaves it active, and no handler run that
\* leaves listening true calls stop().
C25_KeepsRunning ==
    [][ /\ listening' => ev'.stops = 0
        /\ (ev'.name = "toggleListening" /\ ~listening /\ listening') =>
              \E i \in 1..Len(recs') : recs'[i].st = "active" ]_vars

\* C26: while isEditing is true a result event leaves editedTranscript unchanged.
C26_EditNotOverwritten ==
    [][ (ev'.name = "onresult" /\ isEditing) =>
          editedTranscript' = editedTranscript ]_vars

\* C27: the first result event after a confirm or a cancel gives a pending transcript
\* made of the newly recognised text only.
C27_NoReappearance ==
    [][ (/\ ev.name \in {"finishCurrentCommand", "cancelCurrentCommand"}
         /\ feedback.msg \in {"Command processed", "Command cancelled"}
         /\ transcript = <<>>
         /\ ev'.name = "onresult"
         /\ transcript' # <<>>) =>
          transcript' \in Segments ]_vars

\* C28: when listening is false no command is pending: both transcripts are empty and
\* isEditing and processingCommand are false.
C28_IdleNoPending ==
    ~listening => InputsCleared

\* C29: the task list changes only in a confirm of a pending command with a non-blank
\* edited transcript and in a manual toggle or delete; every other handler run leaves
\* it unchanged.
C29_TasksFrame ==
    [][ tasks' # tasks =>
          \/ ev'.name \in {"handleManualToggle", "handleManualDelete"}
          \/ ConfirmStep ]_vars

\* with a task in the list the session was stopped, and a result and the end event of
\* the stopped object arrived; the list still holds the task
C29_Witness ==
    /\ ev.name \in {"onend", "onresult", "onerror", "onstart"}
    /\ ~listening
    /\ transcript # <<>>
    /\ Len(tasks) = 1
    /\ tasks[1].content = <<"x">>

====
